---------------------------- MODULE Spec2Model ----------------------------
(***************************************************************************)
(* A model of src/src/index.ts: the AST classes with their emit and equals *)
(* methods, the Environment and Label classes, the parser combinators and  *)
(* the grammar built on them, and the ARM stack machine that runs the      *)
(* emitted lines.                                                          *)
(***************************************************************************)
EXTENDS Integers, Sequences, FiniteSets, TLC

VARIABLES
    program,   \* the AST handed to emit (the value of `result`, line 47)
    stack,     \* the JavaScript call stack of emit frames
    envs,      \* every Environment object constructed so far
    counter,   \* Label.counter
    out,       \* the lines written by `emit` (console.log), in order
    error,     \* the Error that ended the compilation (message, name), or NoError
    binds,     \* log of the calls of locals.set, in order
    machine,   \* the ARM machine running the emitted lines, or Off
    input,     \* the token list and the inserted runs the source texts are made of
    queue,     \* the source texts still to be parsed
    done,      \* the texts parsed so far, each with its outcome
    heap       \* the AST objects constructed so far, by identity

emitVars == <<program, stack, envs, counter, out, error, binds>>
parseVars == <<input, queue, done>>
vars == <<program, stack, envs, counter, out, error, binds, machine, input, queue, done, heap>>

-----------------------------------------------------------------------------
(* The AST classes (constructors).                                         *)

Undefined == [kind |-> "undefined"]

Number(value) == [kind |-> "Number", value |-> value]
Id(value) == [kind |-> "Id", value |-> value]
Not(term) == [kind |-> "Not", term |-> term]
Equal(left, right) == [kind |-> "Equal", left |-> left, right |-> right]
NotEqual(left, right) == [kind |-> "NotEqual", left |-> left, right |-> right]
Add(left, right) == [kind |-> "Add", left |-> left, right |-> right]
Subtract(left, right) == [kind |-> "Subtract", left |-> left, right |-> right]
Multiply(left, right) == [kind |-> "Multiply", left |-> left, right |-> right]
Divide(left, right) == [kind |-> "Divide", left |-> left, right |-> right]
Call(callee, args) == [kind |-> "Call", callee |-> callee, args |-> args]
Return(term) == [kind |-> "Return", term |-> term]
Block(statements) == [kind |-> "Block", statements |-> statements]
If(conditional, consequence, alternative) ==
    [kind |-> "If", conditional |-> conditional,
     consequence |-> consequence, alternative |-> alternative]
Function(name, parameters, body) ==
    [kind |-> "Function", name |-> name, parameters |-> parameters, body |-> body]
Var(name, value) == [kind |-> "Var", name |-> name, value |-> value]
Assign(name, value) == [kind |-> "Assign", name |-> name, value |-> value]
While(conditional, body) ==
    [kind |-> "While", conditional |-> conditional, body |-> body]
AssertNode(condition) == [kind |-> "Assert", condition |-> condition]

BinaryOf(kind, left, right) == [kind |-> kind, left |-> left, right |-> right]
BinaryKinds == {"Equal", "NotEqual", "Add", "Subtract", "Multiply", "Divide"}

-----------------------------------------------------------------------------
(* Output lines.  A line is the template text of the emit call, with the   *)
(* interpolated number in n and the interpolated name in s.                *)

Line(op, n, s) == [op |-> op, n |-> n, s |-> s]
L0(op) == Line(op, 0, "")
LN(op, n) == Line(op, n, "")
LS(op, s) == Line(op, 0, s)

(* Label without the increment of Label.counter.                           *)
LabelNoIncrement(c) == [value |-> c, counter |-> c]

(* class Label: the constructor takes Label.counter and increments it.     *)
Label(c) == [value |-> c, counter |-> c + 1]

(* class Environment.                                                      *)
Environment(locals, nextLocalOffset) ==
    [locals |-> locals, nextLocalOffset |-> nextLocalOffset]

EmptyMap == [x \in {} |-> 0]
MapSet(m, k, v) == [x \in DOMAIN m \cup {k} |-> IF x = k THEN v ELSE m[x]]
MapHas(m, k) == k \in DOMAIN m

(* if (offset): a Map.get result is truthy when present and non-zero.      *)
Truthy(m, k) == MapHas(m, k) /\ m[k] # 0

-----------------------------------------------------------------------------
(* The call stack.  A frame is one activation of an emit method: the node  *)
(* (this), the position in the method body, the loop index of forEach, the *)
(* env argument (an index into envs, 0 for undefined) and the labels the   *)
(* method holds.                                                           *)

Frame(node, env) ==
    [node |-> node, pc |-> 0, i |-> 0, env |-> env, l1 |-> 0, l2 |-> 0]

(* An Error: the fixed text of the message and the interpolated name.      *)
Err(msg, s) == [msg |-> msg, s |-> s]
NoError == Err("", "")

Top == stack[Len(stack)]
Running == error = NoError /\ Len(stack) > 0
Compiled == error = NoError /\ Len(stack) = 0
Pop == SubSeq(stack, 1, Len(stack) - 1)
At(kind) == Running /\ Top.node.kind = kind

(* Replace the top frame by f and call child.emit(env).                    *)
CallEmit(f, child, env) == Append(Append(Pop, f), Frame(child, env))


-----------------------------------------------------------------------------
(* emit methods, one action per class.                                     *)

TypeError == Err("TypeError: Cannot read properties of undefined", "")

EmitNumber ==
    /\ At("Number")
    /\ out' = Append(out, LN("  ldr r0, =N", Top.node.value))
    /\ stack' = Pop
    /\ UNCHANGED <<program, envs, counter, error, binds, machine, parseVars, heap>>

IdLookup(env, name) ==
    IF env = 0 THEN [ok |-> FALSE, err |-> TypeError, offset |-> 0]
    ELSE IF Truthy(envs[env].locals, name)
         THEN [ok |-> TRUE, err |-> NoError, offset |-> envs[env].locals[name]]
         ELSE [ok |-> FALSE, err |-> Err("Undefined variable: ", name), offset |-> 0]

EmitId ==
    /\ At("Id")
    /\ LET r == IdLookup(Top.env, Top.node.value) IN
         IF r.ok
         THEN /\ out' = Append(out, LN(" ldr r0, [fp, #N]", r.offset))
              /\ stack' = Pop
              /\ UNCHANGED error
         ELSE /\ error' = r.err
              /\ UNCHANGED <<out, stack>>
    /\ UNCHANGED <<program, envs, counter, binds, machine, parseVars, heap>>

EmitNot ==
    /\ At("Not")
    /\ IF Top.pc = 0
       THEN /\ stack' = CallEmit([Top EXCEPT !.pc = 1], Top.node.term, Top.env)
            /\ UNCHANGED out
       ELSE /\ out' = out \o <<LN(" cmp r0, #N", 0), LN(" moveq r0, #N", 1),
                               LN(" movne r0, #N", 0)>>
            /\ stack' = Pop
    /\ UNCHANGED <<program, envs, counter, error, binds, machine, parseVars, heap>>

(* BinaryEmit without the push that saves the left value.                  *)
BinaryEmitNoSave(push, pop, tail) ==
    /\ CASE Top.pc = 0 ->
              /\ stack' = CallEmit([Top EXCEPT !.pc = 1], Top.node.left, Top.env)
              /\ UNCHANGED out
         [] Top.pc = 1 ->
              /\ UNCHANGED out
              /\ stack' = CallEmit([Top EXCEPT !.pc = 2], Top.node.right, Top.env)
         [] OTHER ->
              /\ out' = out \o <<L0(pop)>> \o tail
              /\ stack' = Pop
    /\ UNCHANGED <<program, envs, counter, error, binds, machine, parseVars, heap>>

(* The shape shared by the six binary operators: left, push, right, pop,   *)
(* then the lines `tail` of the operator.                                  *)
BinaryEmit(push, pop, tail) ==
    /\ CASE Top.pc = 0 ->
              /\ stack' = CallEmit([Top EXCEPT !.pc = 1], Top.node.left, Top.env)
              /\ UNCHANGED out
         [] Top.pc = 1 ->
              /\ out' = Append(out, L0(push))
              /\ stack' = CallEmit([Top EXCEPT !.pc = 2], Top.node.right, Top.env)
         [] OTHER ->
              /\ out' = out \o <<L0(pop)>> \o tail
              /\ stack' = Pop
    /\ UNCHANGED <<program, envs, counter, error, binds, machine, parseVars, heap>>

EqualTail == <<L0("  cmp r0, r1"), LN("  moveq r0, #N", 1), LN("  movne r0, #N", 0)>>
NotEqualTail == <<L0("  cmp r0, r1"), LN("  movne r0, #N", 1), LN("  moveq r0, #N", 0)>>
AddTail == <<L0("add r0, r0, r1")>>
SubtractTail == <<L0("  sub r0, r1, r0")>>
MultiplyTail == <<L0("  mul r0, r1, r0")>>
DivideTail == <<L0("  udiv r0, r1, r0")>>

EmitEqual ==
    At("Equal") /\ BinaryEmit("  push {r0, ip}", "  pop {r1, ip}", EqualTail)
EmitNotEqual ==
    At("NotEqual") /\ BinaryEmit("  push {r0, ip}", "  pop {r1, ip}", NotEqualTail)
EmitAdd ==
    At("Add") /\ BinaryEmit("push {r0, ip}", "pop {r1, ip}", AddTail)
EmitSubtract ==
    At("Subtract") /\ BinaryEmit("  push {r0, ip}", "  pop {r1, ip}", SubtractTail)
EmitMultiply ==
    At("Multiply") /\ BinaryEmit("  push {r0, ip}", "  pop {r1, ip}", MultiplyTail)
EmitDivide ==
    At("Divide") /\ BinaryEmit("  push {r0, ip}", "  pop {r1, ip}", DivideTail)

ArityLimit == 4

(* Call.emit falls to its last branch; Function.emit's first test.         *)
TooManyArguments(count) ==
    ~(count = 0 \/ count = 1 \/ (count >= 2 /\ count <= ArityLimit))
TooManyParamsOffByOne(n) == n >= ArityLimit
TooManyParams(n) == n > ArityLimit

EmitCall ==
    /\ At("Call")
    /\ LET count == Len(Top.node.args)
           bl == LS(" bl S", Top.node.callee)
       IN CASE count = 0 ->
                 /\ out' = Append(out, bl)
                 /\ stack' = Pop
                 /\ UNCHANGED error
            [] count = 1 ->
                 IF Top.pc = 0
                 THEN /\ stack' = CallEmit([Top EXCEPT !.pc = 1],
                                           Top.node.args[1], Top.env)
                      /\ UNCHANGED <<out, error>>
                 ELSE /\ out' = Append(out, bl)
                      /\ stack' = Pop
                      /\ UNCHANGED error
            [] ~TooManyArguments(count) ->
                 IF Top.pc = 0
                 THEN /\ out' = Append(out, LN(" sub sp, sp, #N", 16))
                      /\ stack' = CallEmit([Top EXCEPT !.pc = 1, !.i = 0],
                                           Top.node.args[1], Top.env)
                      /\ UNCHANGED error
                 ELSE LET str == LN(" str r0, [sp, #N]", 4 * Top.i) IN
                      IF Top.i + 1 < count
                      THEN /\ out' = Append(out, str)
                           /\ stack' = CallEmit([Top EXCEPT !.i = Top.i + 1],
                                                Top.node.args[Top.i + 2], Top.env)
                           /\ UNCHANGED error
                      ELSE /\ out' = out \o <<str, L0(" pop {r0, r1, r2, r3}"), bl>>
                           /\ stack' = Pop
                           /\ UNCHANGED error
            [] OTHER ->
                 /\ error' = Err("More than 4 arguments are not supported", "")
                 /\ UNCHANGED <<out, stack>>
    /\ UNCHANGED <<program, envs, counter, binds, machine, parseVars, heap>>

EmitReturn ==
    /\ At("Return")
    /\ IF Top.pc = 0
       THEN /\ stack' = CallEmit([Top EXCEPT !.pc = 1], Top.node.term, Top.env)
            /\ UNCHANGED out
       ELSE /\ out' = out \o <<L0(" mov sp, fp"), L0(" pop {fp, pc}")>>
            /\ stack' = Pop
    /\ UNCHANGED <<program, envs, counter, error, binds, machine, parseVars, heap>>

EmitBlock ==
    /\ At("Block")
    /\ IF Top.i < Len(Top.node.statements)
       THEN stack' = CallEmit([Top EXCEPT !.i = Top.i + 1],
                              Top.node.statements[Top.i + 1], Top.env)
       ELSE stack' = Pop
    /\ UNCHANGED <<program, envs, counter, out, error, binds, machine, parseVars, heap>>

EmitIf ==
    /\ At("If")
    /\ CASE Top.pc = 0 ->
              LET ifFalseLabel == Label(counter)
                  endIfLabel == Label(ifFalseLabel.counter)
              IN /\ counter' = endIfLabel.counter
                 /\ stack' = CallEmit([Top EXCEPT !.pc = 1,
                                                  !.l1 = ifFalseLabel.value,
                                                  !.l2 = endIfLabel.value],
                                      Top.node.conditional, Top.env)
                 /\ UNCHANGED out
         [] Top.pc = 1 ->
              /\ out' = out \o <<LN(" cmp r0, #N", 0), LN(" beq .L", Top.l1)>>
              /\ stack' = CallEmit([Top EXCEPT !.pc = 2],
                                   Top.node.consequence, Top.env)
              /\ UNCHANGED counter
         [] Top.pc = 2 ->
              /\ out' = out \o <<LN(" b .L", Top.l2), LN(".L:", Top.l1)>>
              /\ stack' = CallEmit([Top EXCEPT !.pc = 3],
                                   Top.node.alternative, Top.env)
              /\ UNCHANGED counter
         [] OTHER ->
              /\ out' = Append(out, LN(".L:", Top.l2))
              /\ stack' = Pop
              /\ UNCHANGED counter
    /\ UNCHANGED <<program, envs, error, binds, machine, parseVars, heap>>

emitPrologue ==
    <<L0(" push {fp, lr}"), L0(" mov fp, sp"), L0(" push {r0, r1, r2, r3}")>>

emitEpilogue ==
    <<L0(" mov sp, fp"), LN(" mov r0, #N", 0), L0(" pop {fp, pc}")>>

ParamOffset(i) == 4 * i - 16

RECURSIVE SetParams(_, _, _)
SetParams(locals, parameters, i) ==
    IF i >= Len(parameters) THEN locals
    ELSE SetParams(MapSet(locals, parameters[i + 1], ParamOffset(i)),
                   parameters, i + 1)

FirstLocalOffset == -20

(* setUpEnvironment without the parameters.                                *)
setUpEnvironmentNoParams(parameters) == Environment(EmptyMap, FirstLocalOffset)

setUpEnvironment(parameters) ==
    Environment(SetParams(EmptyMap, parameters, 0), FirstLocalOffset)

(* The index in the stack of the Function frame whose body the top frame   *)
(* belongs to, 0 outside every function.  Its l1 holds the function's env. *)
FunctionFrames == {j \in 1..Len(stack) : stack[j].node.kind = "Function"}
Enclosing ==
    IF FunctionFrames \ {Len(stack)} = {} THEN 0
    ELSE CHOOSE j \in FunctionFrames \ {Len(stack)} :
            \A k \in FunctionFrames \ {Len(stack)} : k <= j

(* A call of locals.set, as a log entry: the function activation it was    *)
(* made in, the name and the offset passed, the number of lines written    *)
(* so far, and whether Var.emit made it.                                   *)
Bind(fn, name, offset, at, var) ==
    [fn |-> fn, name |-> name, offset |-> offset, at |-> at, var |-> var]

ParamBinds(env, at) ==
    [i \in 1..Len(Top.node.parameters) |->
        Bind(env, Top.node.parameters[i], ParamOffset(i - 1), at, FALSE)]

EmitFunction ==
    /\ At("Function")
    /\ IF Top.pc = 0
       THEN IF TooManyParams(Len(Top.node.parameters))
            THEN /\ error' = Err("More than 4 params is not supported", "")
                 /\ UNCHANGED <<out, stack, envs, binds>>
            ELSE LET lines == <<L0(""), LS(".global S", Top.node.name),
                                LS("S:", Top.node.name)>> \o emitPrologue
                     env == Len(envs) + 1
                 IN /\ out' = out \o lines
                    /\ envs' = Append(envs, setUpEnvironment(Top.node.parameters))
                    /\ binds' = binds \o ParamBinds(env, Len(out) + Len(lines))
                    /\ stack' = CallEmit([Top EXCEPT !.pc = 1, !.l1 = env],
                                         Top.node.body, env)
                    /\ UNCHANGED error
       ELSE /\ out' = out \o emitEpilogue
            /\ stack' = Pop
            /\ UNCHANGED <<error, envs, binds>>
    /\ UNCHANGED <<program, counter, machine, parseVars, heap>>

VarOffsetNoGap(nextLocalOffset) == nextLocalOffset
VarOffset(nextLocalOffset) == nextLocalOffset - 4
VarStride == 8

EmitVar ==
    /\ At("Var")
    /\ IF Top.pc = 0
       THEN /\ stack' = CallEmit([Top EXCEPT !.pc = 1], Top.node.value, Top.env)
            /\ UNCHANGED <<out, envs, binds, error>>
       ELSE /\ out' = Append(out, L0(" push {r0, ip}"))
            /\ IF Top.env = 0
               THEN /\ error' = TypeError
                    /\ UNCHANGED <<stack, envs, binds>>
               ELSE LET env == envs[Top.env]
                        offset == VarOffset(env.nextLocalOffset)
                    IN /\ envs' = [envs EXCEPT ![Top.env] =
                              Environment(MapSet(env.locals, Top.node.name, offset),
                                          env.nextLocalOffset - VarStride)]
                       /\ binds' = Append(binds,
                              Bind(stack[Enclosing].l1, Top.node.name, offset,
                                   Len(out) + 1, TRUE))
                       /\ stack' = Pop
                       /\ UNCHANGED error
    /\ UNCHANGED <<program, counter, machine, parseVars, heap>>

EmitAssign ==
    /\ At("Assign")
    /\ IF Top.pc = 0
       THEN /\ stack' = CallEmit([Top EXCEPT !.pc = 1], Top.node.value, Top.env)
            /\ UNCHANGED <<out, error>>
       ELSE LET r == IdLookup(Top.env, Top.node.name) IN
            IF r.ok
            THEN /\ out' = Append(out, LN(" str r0, [fp, #N]", r.offset))
                 /\ stack' = Pop
                 /\ UNCHANGED error
            ELSE /\ error' = r.err
                 /\ UNCHANGED <<out, stack>>
    /\ UNCHANGED <<program, envs, counter, binds, machine, parseVars, heap>>

EmitWhile ==
    /\ At("While")
    /\ CASE Top.pc = 0 ->
              LET loopStart == Label(counter)
                  loopEnd == Label(loopStart.counter)
              IN /\ counter' = loopEnd.counter
                 /\ out' = Append(out, LN(".L:", loopStart.value))
                 /\ stack' = CallEmit([Top EXCEPT !.pc = 1,
                                                  !.l1 = loopStart.value,
                                                  !.l2 = loopEnd.value],
                                      Top.node.conditional, Top.env)
         [] Top.pc = 1 ->
              /\ out' = out \o <<LN(" cmp r0, #N", 0), LN(" beq .L", Top.l2)>>
              /\ stack' = CallEmit([Top EXCEPT !.pc = 2], Top.node.body, Top.env)
              /\ UNCHANGED counter
         [] OTHER ->
              /\ out' = out \o <<LN(" b .L", Top.l1), LN(".L:", Top.l2)>>
              /\ stack' = Pop
              /\ UNCHANGED counter
    /\ UNCHANGED <<program, envs, error, binds, machine, parseVars, heap>>

EmitAssert ==
    /\ At("Assert")
    /\ IF Top.pc = 0
       THEN IF Top.node.condition.kind = "undefined"
            THEN /\ error' = TypeError
                 /\ UNCHANGED <<out, stack>>
            ELSE /\ stack' = CallEmit([Top EXCEPT !.pc = 1],
                                      Top.node.condition, Top.env)
                 /\ UNCHANGED <<out, error>>
       ELSE /\ out' = out \o <<LN(" cmp r0, #N", 1), LN(" moveq r0, #N", 46),
                               LN(" movne r0, #N", 70), LS(" bl S", "putchar")>>
            /\ stack' = Pop
            /\ UNCHANGED error
    /\ UNCHANGED <<program, envs, counter, binds, machine, parseVars, heap>>

EmitStep ==
    \/ EmitNumber \/ EmitId \/ EmitNot
    \/ EmitEqual \/ EmitNotEqual \/ EmitAdd
    \/ EmitSubtract \/ EmitMultiply \/ EmitDivide
    \/ EmitCall \/ EmitReturn \/ EmitBlock \/ EmitIf
    \/ EmitFunction \/ EmitVar \/ EmitAssign \/ EmitWhile \/ EmitAssert

-----------------------------------------------------------------------------
(* 32-bit words.  A word is <<high half, low half>>, each half in          *)
(* 0..65535, so that arithmetic modulo 2^32 stays within the integers TLC  *)
(* can hold.                                                               *)

Half == 2^16
Byte == 2^8

ToWord(n) == <<(n \div Half) % Half, n % Half>>
FromWord(w) == w[1] * Half + w[2]
ZeroW == <<0, 0>>
OneW == <<0, 1>>

AddW(a, b) ==
    LET lo == a[2] + b[2]
        hi == a[1] + b[1] + (lo \div Half)
    IN <<hi % Half, lo % Half>>

SubW(a, b) ==
    LET lo == a[2] - b[2]
        borrow == IF lo < 0 THEN 1 ELSE 0
        hi == a[1] - b[1] - borrow
    IN <<(hi + Half) % Half, (lo + Half) % Half>>

(* x * y for halves x, y, as a word.                                       *)
MulHalves(x, y) ==
    LET p0 == (x % Byte) * y
        p1 == (x \div Byte) * y
    IN AddW(<<p0 \div Half, p0 % Half>>, <<(p1 \div Byte) % Half, (p1 % Byte) * Byte>>)

MulW(a, b) ==
    LET low == MulHalves(a[2], b[2])
        cross == AddW(MulHalves(a[1], b[2]), MulHalves(a[2], b[1]))
    IN AddW(low, <<cross[2], 0>>)

BitW(a, i) ==
    IF i >= 16 THEN (a[1] \div (2 ^ (i - 16))) % 2 ELSE (a[2] \div (2 ^ i)) % 2

(* q, r hold the quotient and remainder of the bits of a above bit i.      *)
RECURSIVE DivW(_, _, _, _, _)
DivW(a, b, i, q, r) ==
    IF i < 0 THEN q
    ELSE LET lo2 == r[2] * 2 + BitW(a, i)
             r2 == <<r[1] * 2 + (lo2 \div Half), lo2 % Half>>
             ge == r2[1] > b[1] \/ (r2[1] = b[1] /\ r2[2] >= b[2])
             lo == r2[2] - b[2]
             r3 == IF ge
                   THEN <<r2[1] - b[1] - (IF lo < 0 THEN 1 ELSE 0), (lo + Half) % Half>>
                   ELSE r2
             qlo == q[2] * 2 + (IF ge THEN 1 ELSE 0)
             q2 == <<(q[1] * 2 + (qlo \div Half)) % Half, qlo % Half>>
         IN DivW(a, b, i - 1, q2, r3)

(* udiv: unsigned division, 0 when the divisor is 0.                       *)
UDivW(a, b) == IF b = ZeroW THEN ZeroW ELSE DivW(a, b, 31, ZeroW, ZeroW)

-----------------------------------------------------------------------------
(* The ARM machine that runs the emitted lines.  pc is an index into out;  *)
(* sp and fp are byte addresses; mem maps the written addresses to words.  *)

Off == [status |-> "off"]
StackTop == 4096
ReturnAddress == 0

Load(m, a, g) == IF a \in DOMAIN m.mem THEN m.mem[a] ELSE g

(* push and pop of a register list, lowest register at the lowest address. *)
RECURSIVE StoreAll(_, _, _)
StoreAll(mem, a, ws) ==
    IF ws = <<>> THEN mem
    ELSE StoreAll(MapSet(mem, a, Head(ws)), a + 4, Tail(ws))

Push(m, ws) ==
    [m EXCEPT !.sp = m.sp - 4 * Len(ws),
              !.mem = StoreAll(m.mem, m.sp - 4 * Len(ws), ws)]

LabelLine(n) == CHOOSE j \in 1..Len(out) : out[j] = LN(".L:", n)

Exec(m, g) ==
    LET ins == out[m.pc]
        op == ins.op
        next == [m EXCEPT !.pc = m.pc + 1]
    IN CASE op = "  ldr r0, =N" -> [next EXCEPT !.r0 = ToWord(ins.n)]
         [] op = " ldr r0, [fp, #N]" ->
              [next EXCEPT !.r0 = Load(m, m.fp + ins.n, g)]
         [] op = " str r0, [fp, #N]" ->
              [next EXCEPT !.mem = MapSet(m.mem, m.fp + ins.n, m.r0)]
         [] op = " str r0, [sp, #N]" ->
              [next EXCEPT !.mem = MapSet(m.mem, m.sp + ins.n, m.r0)]
         [] op = " cmp r0, #N" -> [next EXCEPT !.z = (m.r0 = ToWord(ins.n))]
         [] op = "  cmp r0, r1" -> [next EXCEPT !.z = (m.r0 = m.r1)]
         [] op \in {" moveq r0, #N", "  moveq r0, #N"} ->
              IF m.z THEN [next EXCEPT !.r0 = ToWord(ins.n)] ELSE next
         [] op \in {" movne r0, #N", "  movne r0, #N"} ->
              IF m.z THEN next ELSE [next EXCEPT !.r0 = ToWord(ins.n)]
         [] op = " mov r0, #N" -> [next EXCEPT !.r0 = ToWord(ins.n)]
         [] op \in {"push {r0, ip}", " push {r0, ip}", "  push {r0, ip}"} ->
              Push(next, <<m.r0, m.ip>>)
         [] op \in {"pop {r1, ip}", "  pop {r1, ip}"} ->
              [next EXCEPT !.r1 = Load(m, m.sp, g), !.ip = Load(m, m.sp + 4, g),
                           !.sp = m.sp + 8]
         [] op = "add r0, r0, r1" -> [next EXCEPT !.r0 = AddW(m.r0, m.r1)]
         [] op = "  sub r0, r1, r0" -> [next EXCEPT !.r0 = SubW(m.r1, m.r0)]
         [] op = "  mul r0, r1, r0" -> [next EXCEPT !.r0 = MulW(m.r1, m.r0)]
         [] op = "  udiv r0, r1, r0" -> [next EXCEPT !.r0 = UDivW(m.r1, m.r0)]
         [] op = " sub sp, sp, #N" -> [next EXCEPT !.sp = m.sp - ins.n]
         [] op = " pop {r0, r1, r2, r3}" ->
              [next EXCEPT !.r0 = Load(m, m.sp, g), !.r1 = Load(m, m.sp + 4, g),
                           !.r2 = Load(m, m.sp + 8, g), !.r3 = Load(m, m.sp + 12, g),
                           !.sp = m.sp + 16]
         [] op = " bl S" ->
              [next EXCEPT !.r0 = g, !.r1 = g, !.r2 = g, !.r3 = g, !.ip = g]
         [] op = " push {fp, lr}" -> Push(next, <<ToWord(m.fp), ToWord(m.lr)>>)
         [] op = " mov fp, sp" -> [next EXCEPT !.fp = m.sp]
         [] op = " push {r0, r1, r2, r3}" -> Push(next, <<m.r0, m.r1, m.r2, m.r3>>)
         [] op = " mov sp, fp" -> [next EXCEPT !.sp = m.fp]
         [] op = " pop {fp, pc}" ->
              LET to == FromWord(Load(m, m.sp + 4, g)) IN
              [m EXCEPT !.fp = FromWord(Load(m, m.sp, g)), !.pc = to,
                        !.sp = m.sp + 8,
                        !.status = IF to = ReturnAddress THEN "returned" ELSE "run"]
         [] op = " beq .L" -> IF m.z THEN [m EXCEPT !.pc = LabelLine(ins.n)] ELSE next
         [] op = " b .L" -> [m EXCEPT !.pc = LabelLine(ins.n)]
         [] OTHER -> next   \* a label, a directive or the empty line

(* An address held in a word; -1 when it is beyond what the model holds.   *)
MaxSteps == 40

Garbage == {ZeroW, <<21845, 43690>>}
ArgVals == {ZeroW, ToWord(2), <<65535, 65535>>}

TopFunctions ==
    {program.statements[j] : j \in {k \in 1..Len(program.statements) :
                                      program.statements[k].kind = "Function"}}

Entry(name) ==
    CHOOSE j \in 1..Len(out) :
        /\ out[j] = LS("S:", name)
        /\ \A k \in 1..(j - 1) : out[k] # LS("S:", name)

ArgReg(args, i, g) == IF i <= Len(args) THEN args[i] ELSE g

(* The harness calls one of the program's functions: the caller sets the   *)
(* argument registers and branches to the function's label with lr set.    *)
Start ==
    /\ Compiled
    /\ machine = Off
    /\ \E fn \in TopFunctions, g \in Garbage :
         \E args \in [1..Len(fn.parameters) -> ArgVals] :
            machine' = [status |-> "run", pc |-> Entry(fn.name), steps |-> 0,
                        r0 |-> ArgReg(args, 1, g), r1 |-> ArgReg(args, 2, g),
                        r2 |-> ArgReg(args, 3, g), r3 |-> ArgReg(args, 4, g),
                        ip |-> g, lr |-> ReturnAddress,
                        sp |-> StackTop, fp |-> StackTop, z |-> FALSE,
                        mem |-> EmptyMap, fn |-> fn, args |-> args]
    /\ UNCHANGED <<emitVars, parseVars, heap>>

(* One instruction.                                                        *)
Step ==
    /\ machine # Off
    /\ machine.status = "run"
    /\ machine.steps < MaxSteps
    /\ IF machine.pc \in 1..Len(out)
       THEN \E g \in Garbage :
               machine' = [Exec(machine, g) EXCEPT !.steps = machine.steps + 1]
       ELSE machine' = [machine EXCEPT !.status = "fault"]
    /\ UNCHANGED <<emitVars, parseVars, heap>>

-----------------------------------------------------------------------------------------------------------------------------------------------------------------------------------------------------------------------------------------------------------------------------------------------------
(* class Source and the regular expressions.  A string is a sequence of    *)
(* one-character strings; index counts from 0 as in the source.  A regular *)
(* expression is an operator giving the length of its sticky match at      *)
(* index i, -1 when it does not match there.                               *)

SpaceChars == {" ", "\n", "\r", "\t"}
LineTerminators == {"\n", "\r"}
Digits == {"0", "1", "2", "3", "4", "5", "6", "7", "8", "9"}
Letters ==
    {"a", "b", "c", "d", "e", "f", "g", "h", "i", "j", "k", "l", "m",
     "n", "o", "p", "q", "r", "s", "t", "u", "v", "w", "x", "y", "z",
     "A", "B", "C", "D", "E", "F", "G", "H", "I", "J", "K", "L", "M",
     "N", "O", "P", "Q", "R", "S", "T", "U", "V", "W", "X", "Y", "Z",
     "_"}
WordChars == Letters \cup Digits

StartsWith(s, i, w) ==
    /\ i + Len(w) <= Len(s)
    /\ \A k \in 1..Len(w) : s[i + k] = w[k]

(* The end of the longest run of characters of class from i.               *)
RECURSIVE Span(_, _, _)
Span(s, i, class) ==
    IF i < Len(s) /\ s[i + 1] \in class THEN Span(s, i + 1, class) ELSE i

(* The end of the longest run of characters not in class from i.           *)
RECURSIVE SpanNot(_, _, _)
SpanNot(s, i, class) ==
    IF i < Len(s) /\ s[i + 1] \notin class THEN SpanNot(s, i + 1, class) ELSE i

Plus(s, i, class) == IF Span(s, i, class) > i THEN Span(s, i, class) - i ELSE -1
Literal(s, i, w) == IF StartsWith(s, i, w) THEN Len(w) ELSE -1
(* w\b: the word, then the end of input or a non-word character.           *)
Keyword(s, i, w) ==
    IF /\ StartsWith(s, i, w)
       /\ (i + Len(w) = Len(s) \/ s[i + Len(w) + 1] \notin WordChars)
    THEN Len(w) ELSE -1

WhitespaceRe(s, i) == Plus(s, i, SpaceChars)
(* [/][/].* : the dot stops at a line terminator.                          *)
LineCommentRe(s, i) ==
    IF StartsWith(s, i, <<"/", "/">>) THEN SpanNot(s, i + 2, LineTerminators) - i
    ELSE -1
(* [/][*].*[*][/] with the s flag: the greedy dot runs to the last star    *)
(* slash of the input.                                                     *)
BlockCommentRe(s, i) ==
    IF StartsWith(s, i, <<"/", "*">>)
    THEN LET ends == {j \in (i + 2)..(Len(s) - 2) : StartsWith(s, j, <<"*", "/">>)}
         IN IF ends = {} THEN -1
            ELSE (CHOOSE j \in ends : \A k \in ends : k <= j) + 2 - i
    ELSE -1
NumberRe(s, i) == Plus(s, i, Digits)
IdRe(s, i) ==
    IF i < Len(s) /\ s[i + 1] \in Letters THEN Span(s, i + 1, WordChars) - i ELSE -1

(* class ParseResult; Null is the miss.                                    *)
ParseResult(value, index) == [ok |-> TRUE, value |-> value, index |-> index]
Null == [ok |-> FALSE, value |-> <<>>, index |-> 0]

(* Source.match, n being the length of the regular expression's match at i. *)
match(n, s, i) ==
    IF n >= 0 THEN ParseResult(SubSeq(s, i + 1, i + n), i + n) ELSE Null

-----------------------------------------------------------------------------
(* class Parser.  A parser is an operator from (string, index) to a        *)
(* ParseResult or Null; the combinators are applied to results: `or` to    *)
(* the results of its two parsers at the same index, and a bind (and its   *)
(* forms `and` and `map`) is the test of the first result followed by the  *)
(* second parser at the first result's index.                              *)

constant(value, i) == ParseResult(value, i)
or(result, other) == IF result.ok THEN result ELSE other
(* p.map(_ => value)                                                       *)
map(result, value) == IF result.ok THEN constant(value, result.index) ELSE Null

(* null, and a class used as a value.                                      *)
NullValue == [kind |-> "null"]
Class(name) == [kind |-> "class", name |-> name]
maybe(result, i) == or(result, constant(NullValue, i))

(* The two outcomes of parseStringToCompletion: the value returned or the  *)
(* Error thrown, 'Parse error at index ' + index.                          *)
Returned(value) == [kind |-> "value", value |-> value, index |-> 0]
ParseError(index) == [kind |-> "error", value |-> <<>>, index |-> index]

(* The completion test without the comparison of index with the length.   *)
CompletionNoEndTest(result, s) ==
    IF ~result.ok THEN ParseError(0) ELSE Returned(result.value)

(* parseStringToCompletion after this.parse(source) gave result.           *)
parseStringToCompletion(result, s) ==
    IF ~result.ok THEN ParseError(0)
    ELSE IF result.index # Len(s) THEN ParseError(result.index)
    ELSE Returned(result.value)

-----------------------------------------------------------------------------
(* The lexical layer.                                                      *)

whitespace(s, i) == match(WhitespaceRe(s, i), s, i)
comments(s, i) == or(match(LineCommentRe(s, i), s, i), match(BlockCommentRe(s, i), s, i))

(* zeroOrMore(whitespace.or(comments))                                     *)
RECURSIVE zeroOrMoreIgnored(_, _, _)
zeroOrMoreIgnored(s, i, results) ==
    LET item == or(whitespace(s, i), comments(s, i)) IN
    IF item.ok THEN zeroOrMoreIgnored(s, item.index, Append(results, item.value))
    ELSE ParseResult(results, i)
ignored(s, i) == zeroOrMoreIgnored(s, i, <<>>)

(* regexp(pattern).bind((value) => ignored.and(constant(value)))           *)
token(n, s, i) ==
    LET value == match(n, s, i) IN
    IF value.ok THEN map(ignored(s, value.index), value.value) ELSE Null

FUNCTION(s, i) == token(Keyword(s, i, <<"f", "u", "n", "c", "t", "i", "o", "n">>), s, i)
IF_(s, i) == token(Keyword(s, i, <<"i", "f">>), s, i)
ELSE_(s, i) == token(Keyword(s, i, <<"e", "l", "s", "e">>), s, i)
RETURN(s, i) == token(Keyword(s, i, <<"r", "e", "t", "u", "r", "n">>), s, i)
VAR(s, i) == token(Keyword(s, i, <<"v", "a", "r">>), s, i)
WHILE(s, i) == token(Keyword(s, i, <<"w", "h", "i", "l", "e">>), s, i)

COMMA(s, i) == token(Literal(s, i, <<",">>), s, i)
SEMICOLON(s, i) == token(Literal(s, i, <<";">>), s, i)
LEFT_PAREN(s, i) == token(Literal(s, i, <<"(">>), s, i)
RIGHT_PAREN(s, i) == token(Literal(s, i, <<")">>), s, i)
LEFT_BRACE(s, i) == token(Literal(s, i, <<"{">>), s, i)
RIGHT_BRACE(s, i) == token(Literal(s, i, <<"}">>), s, i)

DigitValue(c) ==
    CASE c = "0" -> 0 [] c = "1" -> 1 [] c = "2" -> 2 [] c = "3" -> 3
      [] c = "4" -> 4 [] c = "5" -> 5 [] c = "6" -> 6 [] c = "7" -> 7
      [] c = "8" -> 8 [] c = "9" -> 9
RECURSIVE parseInt(_)
parseInt(digits) ==
    IF digits = <<>> THEN 0
    ELSE 10 * parseInt(SubSeq(digits, 1, Len(digits) - 1))
         + DigitValue(digits[Len(digits)])

NUMBER(s, i) ==
    LET digits == token(NumberRe(s, i), s, i) IN
    map(digits, Number(parseInt(digits.value)))

ID(s, i) == token(IdRe(s, i), s, i)
id(s, i) == LET x == ID(s, i) IN map(x, Id(x.value))
NOT(s, i) == map(token(Literal(s, i, <<"!">>), s, i), Class("Not"))
EQUAL(s, i) == map(token(Literal(s, i, <<"=", "=">>), s, i), Class("Equal"))
NOT_EQUAL(s, i) == map(token(Literal(s, i, <<"!", "=">>), s, i), Class("NotEqual"))
PLUS(s, i) == map(token(Literal(s, i, <<"+">>), s, i), Class("Add"))
MINUS(s, i) == map(token(Literal(s, i, <<"-">>), s, i), Class("Subtract"))
STAR(s, i) == map(token(Literal(s, i, <<"*">>), s, i), Class("Multiply"))
SLASH(s, i) == map(token(Literal(s, i, <<"/">>), s, i), Class("Divide"))
ASSIGN(s, i) == map(token(Literal(s, i, <<"=">>), s, i), Class("Assign"))

-----------------------------------------------------------------------------
(* The grammar.                                                            *)

(* Every parser of the grammar is a case of `parse`, named as the source  *)
(* names it; parse(rule, s, i) is rule.parse(new Source(s, i)).            *)
RECURSIVE parse(_, _, _)

(* Parser.zeroOrMore(rule)                                                 *)
RECURSIVE zeroOrMoreLoop(_, _, _, _)
zeroOrMoreLoop(rule, s, i, results) ==
    LET item == parse(rule, s, i) IN
    IF item.ok THEN zeroOrMoreLoop(rule, s, item.index, Append(results, item.value))
    ELSE ParseResult(results, i)
zeroOrMore(rule, s, i) == zeroOrMoreLoop(rule, s, i, <<>>)

(* first.and(rule)                                                         *)
and(first, rule, s) == IF first.ok THEN parse(rule, s, first.index) ELSE Null

(* args[0] of an empty array is undefined.                                 *)
First(array) == IF array = <<>> THEN Undefined ELSE array[1]

(* operatorTerms.reduceRight in place of reduce: folds from the right.     *)
RECURSIVE reduceRight(_, _)
reduceRight(operatorTerms, left) ==
    IF operatorTerms = <<>> THEN left
    ELSE BinaryOf(Head(operatorTerms).operator.name, left,
                  reduceRight(Tail(operatorTerms), Head(operatorTerms).term))

(* operatorTerms.reduce((left, {operator, term}) => new operator(left,     *)
(* term), term)                                                            *)
RECURSIVE reduce(_, _)
reduce(operatorTerms, left) ==
    IF operatorTerms = <<>> THEN left
    ELSE reduce(Tail(operatorTerms),
                BinaryOf(Head(operatorTerms).operator.name, left,
                         Head(operatorTerms).term))

(* operatorParser.bind(operator => termParser.bind(term => constant({      *)
(* operator, term })))                                                     *)
operatorTerm(operator, termParser, s) ==
    LET term == and(operator, termParser, s) IN
    map(term, [operator |-> operator.value, term |-> term.value])

(* infix: termParser.bind(term => zeroOrMore(pairs).map(reduce)), pairs    *)
(* naming the parser of one { operator, term } pair.                       *)
infix(pairs, termParser, s, i) ==
    LET term == parse(termParser, s, i)
        operatorTerms == IF term.ok THEN zeroOrMore(pairs, s, term.index) ELSE Null
    IN map(operatorTerms, reduce(operatorTerms.value, term.value))

parse(rule, s, i) ==
    CASE rule = "expression" -> parse("comparison", s, i)
      [] rule = "COMMA.and(expression)" -> and(COMMA(s, i), "expression", s)
      [] rule = "args" ->
           LET arg == parse("expression", s, i)
               rest == IF arg.ok THEN zeroOrMore("COMMA.and(expression)", s, arg.index)
                       ELSE Null
           IN or(map(rest, <<arg.value>> \o rest.value), constant(<<>>, i))
      [] rule = "call" ->
           LET callee == ID(s, i)
               list == and(IF callee.ok THEN LEFT_PAREN(s, callee.index) ELSE Null,
                           "args", s)
               close == IF list.ok THEN RIGHT_PAREN(s, list.index) ELSE Null
           IN map(close, IF callee.value = <<"a", "s", "s", "e", "r", "t">>
                         THEN AssertNode(First(list.value))
                         ELSE Call(callee.value, list.value))
      [] rule = "atom" ->
           LET e == and(LEFT_PAREN(s, i), "expression", s)
               close == IF e.ok THEN RIGHT_PAREN(s, e.index) ELSE Null
           IN or(or(or(parse("call", s, i), id(s, i)), NUMBER(s, i)),
                 map(close, e.value))
      [] rule = "unary" ->
           LET not == maybe(NOT(s, i), i)
               term == and(not, "atom", s)
           IN map(term, IF not.value.kind # "null" THEN Not(term.value)
                        ELSE term.value)
      [] rule = "(STAR.or(SLASH), unary)" ->
           operatorTerm(or(STAR(s, i), SLASH(s, i)), "unary", s)
      [] rule = "product" -> infix("(STAR.or(SLASH), unary)", "unary", s, i)
      [] rule = "(PLUS.or(MINUS), product)" ->
           operatorTerm(or(PLUS(s, i), MINUS(s, i)), "product", s)
      [] rule = "sum" -> infix("(PLUS.or(MINUS), product)", "product", s, i)
      [] rule = "(EQUAL.or(NOT_EQUAL), sum)" ->
           operatorTerm(or(EQUAL(s, i), NOT_EQUAL(s, i)), "sum", s)
      [] rule = "comparison" -> infix("(EQUAL.or(NOT_EQUAL), sum)", "sum", s, i)
      [] rule = "statement" -> parse("statementParser", s, i)
      [] rule = "returnStatement" ->
           LET term == and(RETURN(s, i), "expression", s)
               semicolon == IF term.ok THEN SEMICOLON(s, term.index) ELSE Null
           IN map(semicolon, Return(term.value))
      [] rule = "expressionStatement" ->
           LET term == parse("expression", s, i)
               semicolon == IF term.ok THEN SEMICOLON(s, term.index) ELSE Null
           IN map(semicolon, term.value)
      [] rule = "ifStatement" ->
           LET if == IF_(s, i)
               conditional == and(IF if.ok THEN LEFT_PAREN(s, if.index) ELSE Null,
                                  "expression", s)
               consequence == and(IF conditional.ok
                                  THEN RIGHT_PAREN(s, conditional.index) ELSE Null,
                                  "statement", s)
               alternative == and(IF consequence.ok
                                  THEN ELSE_(s, consequence.index) ELSE Null,
                                  "statement", s)
           IN map(alternative,
                  If(conditional.value, consequence.value, alternative.value))
      [] rule = "whileStatement" ->
           LET while == WHILE(s, i)
               conditional == and(IF while.ok THEN LEFT_PAREN(s, while.index)
                                  ELSE Null, "expression", s)
               body == and(IF conditional.ok THEN RIGHT_PAREN(s, conditional.index)
                           ELSE Null, "statement", s)
           IN map(body, While(conditional.value, body.value))
      [] rule = "varStatement" ->
           LET var == VAR(s, i)
               name == IF var.ok THEN ID(s, var.index) ELSE Null
               value == and(IF name.ok THEN ASSIGN(s, name.index) ELSE Null,
                            "expression", s)
               semicolon == IF value.ok THEN SEMICOLON(s, value.index) ELSE Null
           IN map(semicolon, Var(name.value, value.value))
      [] rule = "assignmentStatement" ->
           LET name == ID(s, i)
               value == and(IF name.ok THEN ASSIGN(s, name.index) ELSE Null,
                            "expression", s)
               semicolon == IF value.ok THEN SEMICOLON(s, value.index) ELSE Null
           IN map(semicolon, Assign(name.value, value.value))
      [] rule = "blockStatement" ->
           LET open == LEFT_BRACE(s, i)
               statements == IF open.ok THEN zeroOrMore("statement", s, open.index)
                             ELSE Null
               close == IF statements.ok THEN RIGHT_BRACE(s, statements.index)
                        ELSE Null
           IN map(close, Block(statements.value))
      [] rule = "COMMA.and(ID)" ->
           LET comma == COMMA(s, i) IN IF comma.ok THEN ID(s, comma.index) ELSE Null
      [] rule = "parameters" ->
           LET param == ID(s, i)
               params == IF param.ok THEN zeroOrMore("COMMA.and(ID)", s, param.index)
                         ELSE Null
           IN or(map(params, <<param.value>> \o params.value), constant(<<>>, i))
      [] rule = "functionStatement" ->
           LET function == FUNCTION(s, i)
               name == IF function.ok THEN ID(s, function.index) ELSE Null
               list == and(IF name.ok THEN LEFT_PAREN(s, name.index) ELSE Null,
                           "parameters", s)
               block == and(IF list.ok THEN RIGHT_PAREN(s, list.index) ELSE Null,
                            "blockStatement", s)
           IN map(block, Function(name.value, list.value, block.value))
      [] rule = "statementParser" ->
           or(or(or(or(or(or(or(parse("returnStatement", s, i),
                                parse("functionStatement", s, i)),
                             parse("ifStatement", s, i)),
                          parse("whileStatement", s, i)),
                       parse("varStatement", s, i)),
                    parse("assignmentStatement", s, i)),
                 parse("blockStatement", s, i)),
              parse("expressionStatement", s, i))
      [] rule = "parser" ->
           LET statements == and(ignored(s, i), "zeroOrMore(statement)", s) IN
           map(statements, Block(statements.value))
      [] rule = "zeroOrMore(statement)" -> zeroOrMore("statement", s, i)

expression(s, i) == parse("expression", s, i)
statement(s, i) == parse("statement", s, i)
parser(s, i) == parse("parser", s, i)

-----
(* The equals methods.  AST objects live in `heap`; a reference is an      *)
(* index into it, 0 being undefined.  An object holds its class, its       *)
(* scalar (value, callee or name), its parameter list and the references   *)
(* of its children in constructor order.                                   *)

Object(kind, value, names, kids) ==
    [kind |-> kind, value |-> value, parameters |-> names, kids |-> kids]

RECURSIVE equals(_, _)
every(xs, ys) == \A k \in 1..Len(xs) : equals(xs[k], ys[k])
equals(this, other) ==
    LET a == heap[this]
        b == heap[other]
    IN CASE a.kind \in {"Number", "Id"} -> b.kind = a.kind /\ a.value = b.value
         [] a.kind \in {"Not", "Return"} ->
              b.kind = a.kind /\ equals(a.kids[1], b.kids[1])
         [] a.kind \in BinaryKinds ->
              /\ b.kind = a.kind
              /\ equals(a.kids[1], b.kids[1])
              /\ equals(a.kids[2], b.kids[2])
         [] a.kind = "Call" ->
              /\ b.kind = "Call"
              /\ a.value = b.value
              /\ Len(a.kids) = Len(b.kids)
              /\ every(a.kids, b.kids)
         [] a.kind = "Block" ->
              /\ b.kind = "Block"
              /\ Len(a.kids) = Len(b.kids)
              /\ every(a.kids, b.kids)
         [] a.kind = "If" ->
              /\ b.kind = "If"
              /\ equals(a.kids[1], b.kids[1])
              /\ equals(a.kids[2], b.kids[2])
              /\ equals(a.kids[3], b.kids[3])
         [] a.kind = "Function" ->
              /\ b.kind = "Function"
              /\ a.value = b.value
              /\ Len(a.parameters) = Len(b.parameters)
              /\ \A k \in 1..Len(a.parameters) : a.parameters[k] = b.parameters[k]
              /\ equals(a.kids[1], b.kids[1])
         [] a.kind \in {"Var", "Assign"} ->
              /\ b.kind = a.kind
              /\ a.value = b.value
              /\ equals(a.kids[1], b.kids[1])
         [] a.kind = "While" ->
              /\ b.kind = "While"
              /\ equals(a.kids[1], b.kids[1])
              /\ equals(a.kids[2], b.kids[2])
         [] a.kind = "Assert" -> b.kind = "Assert" /\ a.kids[1] = b.kids[1]

(* The constructors, one action each.                                      *)
MaxObjects == 4
NumberValues == {1, 2}
Names == {"x", "y"}
ParameterLists == {<<>>, <<"x">>, <<"x", "y">>}
Refs == 1..Len(heap)
RefLists == {<<>>} \cup {<<a>> : a \in Refs} \cup {<<a, b>> : a \in Refs, b \in Refs}

New(object) ==
    /\ heap' = Append(heap, object)
    /\ UNCHANGED <<emitVars, machine, parseVars>>

NewNumber ==
    /\ Len(heap) < MaxObjects
    /\ \E v \in NumberValues : New(Object("Number", v, <<>>, <<>>))
NewId ==
    /\ Len(heap) < MaxObjects
    /\ \E v \in Names : New(Object("Id", v, <<>>, <<>>))
NewNot ==
    /\ Len(heap) < MaxObjects
    /\ \E term \in Refs : New(Object("Not", "", <<>>, <<term>>))
NewBinary ==
    /\ Len(heap) < MaxObjects
    /\ \E kind \in BinaryKinds, left \in Refs, right \in Refs :
           New(Object(kind, "", <<>>, <<left, right>>))
NewCall ==
    /\ Len(heap) < MaxObjects
    /\ \E callee \in Names, list \in RefLists : New(Object("Call", callee, <<>>, list))
NewReturn ==
    /\ Len(heap) < MaxObjects
    /\ \E term \in Refs : New(Object("Return", "", <<>>, <<term>>))
NewBlock ==
    /\ Len(heap) < MaxObjects
    /\ \E list \in RefLists : New(Object("Block", "", <<>>, list))
NewIf ==
    /\ Len(heap) < MaxObjects
    /\ \E conditional \in Refs, consequence \in Refs, alternative \in Refs :
           New(Object("If", "", <<>>, <<conditional, consequence, alternative>>))
NewFunction ==
    /\ Len(heap) < MaxObjects
    /\ \E name \in Names, list \in ParameterLists, body \in Refs :
           New(Object("Function", name, list, <<body>>))
NewVar ==
    /\ Len(heap) < MaxObjects
    /\ \E name \in Names, value \in Refs : New(Object("Var", name, <<>>, <<value>>))
NewAssign ==
    /\ Len(heap) < MaxObjects
    /\ \E name \in Names, value \in Refs : New(Object("Assign", name, <<>>, <<value>>))
NewWhile ==
    /\ Len(heap) < MaxObjects
    /\ \E conditional \in Refs, body \in Refs :
           New(Object("While", "", <<>>, <<conditional, body>>))
(* new Assert(args[0]): the condition is undefined when args is empty.     *)
NewAssert ==
    /\ Len(heap) < MaxObjects
    /\ \E condition \in Refs \cup {0} : New(Object("Assert", "", <<>>, <<condition>>))

(* The leaves a heap starts with.                                          *)
LeafObjects ==
    {Object("Number", v, <<>>, <<>>) : v \in NumberValues}
    \cup {Object("Id", v, <<>>, <<>>) : v \in Names}

-----
(* The programs compiled.                                                  *)

ParamNames == <<"a", "b", "c", "d", "e">>

Leaves == {Number(5), Id("a"), Id("b")}
Inner ==
    {BinaryOf(k, Id("a"), Id("b")) : k \in BinaryKinds}
    \cup {BinaryOf(k, Id("b"), Number(3)) : k \in BinaryKinds}
Expressions ==
    Leaves
    \cup {Not(e) : e \in Leaves \cup Inner}
    \cup {BinaryOf(k, l, r) : k \in BinaryKinds, l \in Leaves, r \in Leaves}
    \cup {BinaryOf(k, Id("a"), r) : k \in BinaryKinds, r \in Inner}
    \cup {BinaryOf(k, l, Id("b")) : k \in BinaryKinds, l \in Inner}
    \cup {Subtract(Number(1), Divide(Subtract(Id("a"), Id("b")), Not(Id("b")))),
          Divide(Multiply(Id("a"), Id("a")), Subtract(Number(0), Add(Id("b"), Number(1))))}

ExpressionPrograms ==
    {Block(<<Function("f", <<"a", "b">>, Block(<<Return(e)>>))>>) : e \in Expressions}

(* Bodies of function f(n): one, two or three statements.                  *)
Declarations ==
    {Var("x", Number(1)),
     If(Id("n"), Var("x", Number(1)), Block(<<>>)),
     If(Equal(Id("n"), Number(0)), Var("y", Number(4)), Var("x", Number(5))),
     While(Id("n"), Block(<<Var("x", Number(1)),
                            Assign("n", Subtract(Id("n"), Number(1)))>>))}
Statements ==
    Declarations
    \cup {Var("y", Id("n")), Var("x", Id("x")), Var("n", Number(2)),
          Assign("x", Add(Id("x"), Number(1))),
          Assign("n", Subtract(Id("n"), Number(1))),
          While(Id("x"), Block(<<>>)),
          Return(Id("x")), Return(Id("n")),
          Call("g", <<Id("n"), Id("x")>>),
          AssertNode(Equal(Id("n"), Number(1))),
          Id("y"),
          Block(<<Var("y", Number(9))>>)}
Closers == {Return(Id("x")), Var("y", Number(7)), Assign("y", Id("x"))}
Bodies ==
    {<<s>> : s \in Statements}
    \cup {<<s, t>> : s \in Statements, t \in Statements}
    \cup {<<s, t, u>> : s \in Declarations, t \in Statements, u \in Closers}
StatementPrograms ==
    {Block(<<Function("f", <<"n">>, Block(b))>>) : b \in Bodies}

(* Calls with 0..5 arguments in functions with 0..5 parameters.            *)
Numbers(j) == [i \in 1..j |-> Number(i)]
ArityPrograms ==
    {Block(<<Function("f", SubSeq(ParamNames, 1, k),
                      Block(<<Return(Call("g", Numbers(j)))>>))>>) :
        k \in 0..(ArityLimit + 1), j \in 0..(ArityLimit + 1)}
    \cup {Block(<<Function("f", <<"a", "a">>, Block(<<Return(Id("a"))>>))>>),
          Block(<<Function("f", <<"a", "b", "c", "d">>,
                           Block(<<Var("d", Id("c")), Return(Id("d"))>>))>>),
          Block(<<Function("f", <<>>, Block(<<AssertNode(Undefined)>>))>>)}

(* If and While, nested and in sequence, in one and in two functions.      *)
Cond == Id("n")
Nest1 == If(Cond, While(Cond, Block(<<>>)), If(Cond, Block(<<>>), Block(<<>>)))
Nest2 == While(Cond, Block(<<Nest1, While(Not(Cond), Return(Number(1)))>>))
LabelPrograms ==
    {Block(<<Function("f", <<"n">>, Block(<<Nest1>>))>>),
     Block(<<Function("f", <<"n">>, Block(<<Nest2>>))>>),
     Block(<<Function("f", <<"n">>, Block(<<Nest1, Nest1>>))>>),
     Block(<<Function("f", <<"n">>, Block(<<Nest1>>)),
             Function("g", <<"n">>, Block(<<Nest2, Nest1>>))>>),
     Block(<<Function("f", <<"n">>, Block(<<If(Cond, Return(Number(1)), Return(Number(0)))>>)),
             Function("g", <<"n">>, Block(<<While(Cond, Return(Number(2)))>>))>>)}

(* Several functions, a function inside a function, statements outside.    *)
FunctionPrograms ==
    {Block(<<Function("f", <<"a">>, Block(<<Var("x", Number(1)), Return(Id("x"))>>)),
             Function("g", <<"b">>, Block(<<Return(Id("x"))>>))>>),
     Block(<<Function("f", <<"a">>, Block(<<Var("x", Number(1)), Return(Id("x"))>>)),
             Function("g", <<"b">>, Block(<<Return(Id("a"))>>))>>),
     Block(<<Function("f", <<"a">>, Block(<<Return(Id("a"))>>)),
             Function("g", <<"b">>, Block(<<Var("x", Id("b")), Return(Id("x"))>>))>>),
     Block(<<Function("f", <<"a">>,
                Block(<<Var("x", Number(1)),
                        Function("g", <<"b">>,
                                 Block(<<Var("y", Number(2)), Return(Id("x"))>>)),
                        Return(Id("x"))>>))>>),
     Block(<<Function("f", <<"a">>,
                Block(<<Function("g", <<"b">>,
                                 Block(<<Var("y", Number(1)), Return(Id("b"))>>)),
                        Var("x", Number(3)),
                        Return(Id("a"))>>))>>),
     Block(<<Function("f", <<"a">>,
                Block(<<Function("g", <<"b">>, Block(<<Var("y", Number(1))>>)),
                        Return(Id("y"))>>))>>),
     Block(<<Id("x")>>),
     Block(<<Var("x", Number(1))>>),
     Block(<<Return(Number(1))>>),
     Block(<<>>)}

-----
(* Source texts.  A text is made of a token list: the tokens separated by  *)
(* sep, with the run of ignorable characters `run` inserted at the         *)
(* positions `at` (0 before the first token, k after the k-th).            *)

RECURSIVE Concat(_)
Concat(parts) == IF parts = <<>> THEN <<>> ELSE Head(parts) \o Concat(Tail(parts))

Text(toks, sep, run, at) ==
    Concat([k \in 1..Len(toks) |->
               (IF k = 1 /\ 0 \in at THEN run ELSE <<>>)
               \o toks[k]
               \o (IF k < Len(toks) THEN sep ELSE <<>>)
               \o (IF k \in at THEN run ELSE <<>>)])

Source(toks, sep, run, at, entry, family) ==
    [toks |-> toks, sep |-> sep, run |-> run, at |-> at, entry |-> entry,
     family |-> family]
NoInput == Source(<<>>, <<>>, <<>>, {}, "", "")

(* The texts of an input: the plain one, then the one with the runs.       *)
Sources(in) ==
    IF in.at = {} THEN <<Text(in.toks, in.sep, <<>>, {})>>
    ELSE <<Text(in.toks, in.sep, <<>>, {}), Text(in.toks, in.sep, in.run, in.at)>>

Space == <<" ">>
Separators == {<<>>, Space}
Entries == {"parser", "statement", "expression"}

(* Infix expressions: operand, then up to MaxOperators times an operator   *)
(* and an operand; the operand at position `bang` carries a `!`.           *)
MaxOperators == 3
OperatorLexemes == {<<"=", "=">>, <<"!", "=">>, <<"+">>, <<"-">>, <<"*">>, <<"/">>}
DigitChars == <<"1", "2", "3", "4", "5", "6", "7", "8", "9">>
NameChars == <<"a", "b", "c", "d", "e", "f", "g", "h", "i">>
OperandKinds == {"number", "id"}
Operand(operands, j) == IF operands = "number" THEN <<DigitChars[j]>> ELSE <<NameChars[j]>>
InfixTokens(ops, operands, bang) ==
    Concat([j \in 1..(Len(ops) + 1) |->
               (IF j > 1 THEN <<ops[j - 1]>> ELSE <<>>)
               \o (IF bang = j THEN <<(<<"!">>)>> ELSE <<>>)
               \o <<Operand(operands, j)>>])
OperatorLists == UNION {[1..k -> OperatorLexemes] : k \in 0..MaxOperators}
InfixInputs ==
    {Source(InfixTokens(in[1], in[2], in[3]), in[4], <<>>, {}, "expression", "infix") :
        in \in OperatorLists \X OperandKinds \X (0..1) \X Separators}

BasePrograms ==
    {<<<<"x">>, <<";">>, <<"y">>, <<";">>>>,
     <<<<"f", "u", "n", "c", "t", "i", "o", "n">>, <<"f">>, <<"(">>,
       <<"n">>, <<")">>, <<"{">>, <<"r", "e", "t", "u", "r", "n">>,
       <<"n">>, <<";">>, <<"}">>>>,
     <<<<"i", "f">>, <<"(">>, <<"a">>, <<")">>, <<"b">>, <<";">>,
       <<"e", "l", "s", "e">>, <<"c">>, <<";">>>>,
     <<<<"v", "a", "r">>, <<"x">>, <<"=">>, <<"a">>, <<"/">>, <<"b">>,
       <<";">>>>,
     <<<<"w", "h", "i", "l", "e">>, <<"(">>, <<"n">>, <<"!", "=">>,
       <<"1", "0">>, <<")">>, <<"n">>, <<"=">>, <<"n">>, <<"-">>,
       <<"1">>, <<";">>>>,
     <<<<"a", "s", "s", "e", "r", "t">>, <<"(">>, <<"f">>, <<"(">>,
       <<"1">>, <<",">>, <<"x">>, <<")">>, <<")">>, <<";">>>>,
     <<<<"{">>, <<"f">>, <<"(">>, <<")">>, <<";">>, <<"}">>>>,
     <<<<"r", "e", "t", "u", "r", "n">>, <<"(">>, <<"a">>, <<"+">>,
       <<"b">>, <<")">>, <<"*">>, <<"!">>, <<"c">>, <<";">>>>}
Fragments ==
    {<<<<"x">>, <<";">>, <<")">>>>,
     <<<<"i", "f", "f", "y">>, <<"(">>, <<"a">>, <<")">>, <<";">>>>,
     <<<<"1">>, <<"+">>, <<"2">>, <<")">>, <<"*">>, <<"3">>>>,
     <<<<"a", "s", "s", "e", "r", "t">>, <<"(">>, <<")">>, <<";">>>>}

(* Programs with a run of spaces, newlines and comments inserted at up to  *)
(* MaxGaps positions.                                                      *)
MaxGaps == 2
GapRuns ==
    {<<"\n", "\t", " ">>, <<"/", "/", "c", "\n">>, <<"/", "*", "c", "*", "/">>,
     <<"/", "*", "c", "*", "/", " ", "/", "/", "d", "\r", "\n">>}
Positions(toks) == {A \in SUBSET (0..Len(toks)) : Cardinality(A) \in 1..MaxGaps}
PaddedInputs ==
    {Source(in[1], Space, in[2], in[3], "parser", "padded") :
        in \in UNION {{<<toks, run, at>> : run \in GapRuns, at \in Positions(toks)} :
                        toks \in BasePrograms}}

(* Every prefix of a program or fragment, handed to each of the parsers.   *)
PrefixInputs ==
    {Source(in[1], Space, <<>>, {}, in[2], "prefix") :
        in \in UNION {{<<SubSeq(toks, 1, k), entry>> : k \in 0..Len(toks), entry \in Entries} :
                        toks \in BasePrograms \cup Fragments}}

ParseInputs == InfixInputs \cup PaddedInputs \cup PrefixInputs

Programs ==
    ExpressionPrograms \cup StatementPrograms \cup ArityPrograms
    \cup LabelPrograms \cup FunctionPrograms

Init ==
    /\ program \in Programs
    /\ stack = <<Frame(program, 0)>>
    /\ envs = <<>>
    /\ counter = 0
    /\ out = <<>>
    /\ error = NoError
    /\ binds = <<>>
    /\ machine = Off
    /\ input = NoInput
    /\ queue = <<>>
    /\ done = <<>>
    /\ heap = <<>>

Next == EmitStep \/ Start \/ Step

Spec == Init /\ [][Next]_vars

Idle ==
    /\ program = Block(<<>>)
    /\ stack = <<>>
    /\ envs = <<>>
    /\ counter = 0
    /\ out = <<>>
    /\ error = NoError
    /\ binds = <<>>
    /\ machine = Off

(* The parser at work: each text of the input is parsed to completion by   *)
(* the parser the input names.                                             *)
Parsed(source, result) ==
    [source |-> source, result |-> result,
     outcome |-> parseStringToCompletion(result, source)]

Parse(result) ==
    /\ done' = Append(done, Parsed(Head(queue), result))
    /\ queue' = Tail(queue)
    /\ UNCHANGED <<emitVars, machine, input, heap>>

ParseProgram ==
    /\ queue # <<>>
    /\ input.entry = "parser"
    /\ Parse(parser(Head(queue), 0))
ParseStatement ==
    /\ queue # <<>>
    /\ input.entry = "statement"
    /\ Parse(statement(Head(queue), 0))
ParseExpression ==
    /\ queue # <<>>
    /\ input.entry = "expression"
    /\ Parse(expression(Head(queue), 0))

InitParse ==
    /\ Idle
    /\ input \in ParseInputs
    /\ queue = Sources(input)
    /\ done = <<>>
    /\ heap = <<>>

NextParse == ParseProgram \/ ParseStatement \/ ParseExpression

SpecParse == InitParse /\ [][NextParse]_vars

(* The AST classes at work: two leaves exist, and objects are constructed  *)
(* one at a time.                                                          *)
InitEq ==
    /\ Idle
    /\ input = NoInput
    /\ queue = <<>>
    /\ done = <<>>
    /\ heap \in LeafObjects \X LeafObjects

NextEq ==
    \/ NewNumber \/ NewId \/ NewNot \/ NewBinary \/ NewCall \/ NewReturn
    \/ NewBlock \/ NewIf \/ NewFunction \/ NewVar \/ NewAssign \/ NewWhile
    \/ NewAssert

SpecEq == InitEq /\ [][NextEq]_vars

-----------------------------------------------------------------------------
(* Properties of the code generator.                                       *)

Range(f) == {f[x] : x \in DOMAIN f}

(* The Var bindings logged for function activation fn, in order.           *)
VarBinds(fn) == SelectSeq(binds, LAMBDA b : b.var /\ b.fn = fn)

(* The lookup steps of Id.emit and Assign.emit inside a function body.     *)
LookupName ==
    IF Top.node.kind = "Id" THEN Top.node.value ELSE Top.node.name
AtLookup ==
    /\ Running
    /\ Top.node.kind = "Id" \/ (Top.node.kind = "Assign" /\ Top.pc = 1)
    /\ Enclosing # 0

BoundHere ==
    Range(stack[Enclosing].node.parameters)
    \cup {b.name : b \in Range(VarBinds(stack[Enclosing].l1))}

(* C3: inside a function body, Id(n).emit and Assign(n, v).emit raise      *)
(* 'Undefined variable: n' exactly when n is neither a parameter of that   *)
(* function nor the name of a Var emitted earlier in the same function;    *)
(* names bound in another function do not count, and a bound name never    *)
(* raises.                                                                 *)
C3_UndefinedIffUnbound ==
    [][AtLookup =>
         /\ (error' = Err("Undefined variable: ", LookupName))
              <=> (vars' # vars /\ LookupName \notin BoundHere)
         /\ error' \in {NoError, Err("Undefined variable: ", LookupName)}]_vars

C3_Witness ==
    /\ error = Err("Undefined variable: ", "x")
    /\ Enclosing # 0
    /\ \E e \in 1..Len(envs) : e # Top.env /\ "x" \in DOMAIN envs[e].locals

(* The label lines written, and the labels held by the If and While        *)
(* emissions in progress.                                                  *)
LabelLines == {j \in 1..Len(out) : out[j].op = ".L:"}
HeldLabels ==
    {<<j, 1, stack[j].l1>> : j \in {k \in 1..Len(stack) :
          stack[k].node.kind \in {"If", "While"} /\ stack[k].pc > 0}}
    \cup {<<j, 2, stack[j].l2>> : j \in {k \in 1..Len(stack) :
          stack[k].node.kind \in {"If", "While"} /\ stack[k].pc > 0}}

(* The number of If and While nodes of a tree.                             *)
RECURSIVE Branching(_)
SumBranching(s) ==
    LET RECURSIVE Sum(_)
        Sum(i) == IF i > Len(s) THEN 0 ELSE Branching(s[i]) + Sum(i + 1)
    IN Sum(1)
Branching(node) ==
    CASE node.kind \in {"Number", "Id", "undefined"} -> 0
      [] node.kind \in {"Not", "Return"} -> Branching(node.term)
      [] node.kind \in BinaryKinds -> Branching(node.left) + Branching(node.right)
      [] node.kind = "Call" -> SumBranching(node.args)
      [] node.kind = "Block" -> SumBranching(node.statements)
      [] node.kind = "If" ->
           1 + Branching(node.conditional) + Branching(node.consequence)
             + Branching(node.alternative)
      [] node.kind = "Function" -> Branching(node.body)
      [] node.kind \in {"Var", "Assign"} -> Branching(node.value)
      [] node.kind = "While" ->
           1 + Branching(node.conditional) + Branching(node.body)
      [] node.kind = "Assert" -> Branching(node.condition)

(* C4: every Label constructed in a compilation has its own integer, no    *)
(* label line .L<n>: is written twice, and each If and each While          *)
(* emission constructs exactly two labels.                                 *)
C4_LabelsUnique ==
    /\ \A j, k \in LabelLines : out[j].n = out[k].n => j = k
    /\ \A a, b \in HeldLabels : a[3] = b[3] => a = b
    /\ \A j \in LabelLines : out[j].n < counter
    /\ \A a \in HeldLabels : a[3] < counter
    /\ Compiled =>
         /\ counter = 2 * Branching(program)
         /\ Cardinality(LabelLines) = 2 * Branching(program)

C4_Witness ==
    /\ Compiled
    /\ Len(program.statements) = 2
    /\ Cardinality(LabelLines) >= 8

ArgumentsError == Err("More than 4 arguments are not supported", "")
ParamsError == Err("More than 4 params is not supported", "")

(* C7: Call.emit with more than 4 arguments and Function.emit with more    *)
(* than 4 parameters raise their arity errors before writing any line for  *)
(* the node; with 0 to 4 arguments or parameters no arity error is raised. *)
C7_ArityErrors ==
    [][/\ (Running /\ Top.node.kind = "Call" /\ Top.pc = 0 /\ vars' # vars) =>
            IF Len(Top.node.args) > 4
            THEN error' = ArgumentsError /\ out' = out
            ELSE error' = NoError
       /\ (Running /\ Top.node.kind = "Function" /\ Top.pc = 0 /\ vars' # vars) =>
            IF Len(Top.node.parameters) > 4
            THEN error' = ParamsError /\ out' = out
            ELSE error' = NoError
       /\ (error' # error /\ error' \in {ArgumentsError, ParamsError}) =>
            /\ Running /\ Top.pc = 0
            /\ Top.node.kind \in {"Call", "Function"}]_vars

C7_Witness ==
    /\ error = ArgumentsError
    /\ Len(stack[Enclosing].node.parameters) = 4
    /\ Len(out) = 6

(* The Function frames whose body is being emitted.                        *)
ActiveFunctions ==
    {j \in 1..Len(stack) : stack[j].node.kind = "Function" /\ stack[j].pc = 1}

VarsBoundAsClaimed(fn) ==
    /\ \A k \in 1..Len(VarBinds(fn)) : VarBinds(fn)[k].offset = -16 - 8 * k
    /\ envs[fn].nextLocalOffset = -20 - 8 * Len(VarBinds(fn))
    /\ \A x \in DOMAIN envs[fn].locals : envs[fn].locals[x] # 0

(* C8, as claimed: while a function body is emitted, parameter i is bound  *)
(* to 4*i - 16, the k-th Var emitted in the function was bound to          *)
(* -16 - 8*k, nextLocalOffset is -20 - 8*(Vars emitted) and no name maps   *)
(* to offset 0.                                                            *)
C8_Original ==
    \A j \in ActiveFunctions :
        /\ \A i \in 0..3 :
              i < Len(stack[j].node.parameters) =>
                 /\ stack[j].node.parameters[i + 1] \in DOMAIN envs[stack[j].l1].locals
                 /\ envs[stack[j].l1].locals[stack[j].node.parameters[i + 1]]
                      = 4 * i - 16
        /\ VarsBoundAsClaimed(stack[j].l1)

(* The declarations of a function in order, parameters then Vars, each    *)
(* with the offset it was bound to.                                        *)
Declared(j) ==
    [i \in 1..Len(stack[j].node.parameters) |->
        [name |-> stack[j].node.parameters[i], offset |-> 4 * (i - 1) - 16]]
    \o [k \in 1..Len(VarBinds(stack[j].l1)) |->
        [name |-> VarBinds(stack[j].l1)[k].name, offset |-> -16 - 8 * k]]

(* C8, amended: a name keeps the offset of its latest binding, so          *)
(* parameter i is at 4*i - 16 unless a later parameter or an emitted Var   *)
(* has the same name; the rest as claimed.                                 *)
C8_LatestBindingOffsets ==
    \A j \in ActiveFunctions :
        /\ DOMAIN envs[stack[j].l1].locals = {d.name : d \in Range(Declared(j))}
        /\ \A i \in 1..Len(Declared(j)) :
              (\A k \in (i + 1)..Len(Declared(j)) :
                   Declared(j)[k].name # Declared(j)[i].name)
              => envs[stack[j].l1].locals[Declared(j)[i].name] = Declared(j)[i].offset
        /\ VarsBoundAsClaimed(stack[j].l1)

C8_Witness ==
    \E j \in ActiveFunctions :
        /\ stack[j].node.parameters = <<"n">>
        /\ Len(VarBinds(stack[j].l1)) = 2
        /\ envs[stack[j].l1].locals["n"] = -24
        /\ envs[stack[j].l1].nextLocalOffset = -36

-----------------------------------------------------------------------------
(* Properties of the emitted code when run.                                *)

RECURSIVE IsPure(_)
IsPure(e) ==
    CASE e.kind \in {"Number", "Id"} -> TRUE
      [] e.kind = "Not" -> IsPure(e.term)
      [] e.kind \in BinaryKinds -> IsPure(e.left) /\ IsPure(e.right)
      [] OTHER -> FALSE

(* The value of parameter name: the last parameter of that name.           *)
ArgOf(fn, actuals, name) ==
    actuals[CHOOSE i \in 1..Len(fn.parameters) :
            /\ fn.parameters[i] = name
            /\ \A k \in (i + 1)..Len(fn.parameters) : fn.parameters[k] # name]

Bool(b) == IF b THEN OneW ELSE ZeroW

(* The value of an expression, left-op-right modulo 2^32.                  *)
RECURSIVE Value(_, _, _)
Value(e, fn, actuals) ==
    CASE e.kind = "Number" -> ToWord(e.value)
      [] e.kind = "Id" -> ArgOf(fn, actuals, e.value)
      [] e.kind = "Not" -> Bool(Value(e.term, fn, actuals) = ZeroW)
      [] e.kind = "Equal" -> Bool(Value(e.left, fn, actuals) = Value(e.right, fn, actuals))
      [] e.kind = "NotEqual" -> Bool(Value(e.left, fn, actuals) # Value(e.right, fn, actuals))
      [] e.kind = "Add" -> AddW(Value(e.left, fn, actuals), Value(e.right, fn, actuals))
      [] e.kind = "Subtract" -> SubW(Value(e.left, fn, actuals), Value(e.right, fn, actuals))
      [] e.kind = "Multiply" -> MulW(Value(e.left, fn, actuals), Value(e.right, fn, actuals))
      [] e.kind = "Divide" -> UDivW(Value(e.left, fn, actuals), Value(e.right, fn, actuals))

RECURSIVE DivisorsNonZero(_, _, _)
DivisorsNonZero(e, fn, actuals) ==
    CASE e.kind \in {"Number", "Id"} -> TRUE
      [] e.kind = "Not" -> DivisorsNonZero(e.term, fn, actuals)
      [] OTHER ->
           /\ DivisorsNonZero(e.left, fn, actuals)
           /\ DivisorsNonZero(e.right, fn, actuals)
           /\ e.kind = "Divide" => Value(e.right, fn, actuals) # ZeroW

(* The machine returned from a function whose body is `return e;`.         *)
ReturnedExpression ==
    /\ machine # Off
    /\ machine.status = "returned"
    /\ machine.fn.body.statements # <<>>
    /\ machine.fn.body.statements[1].kind = "Return"
    /\ IsPure(machine.fn.body.statements[1].term)

(* C9: for every expression built from Number, Id, Not and the six binary  *)
(* operators, with no zero divisor, running the emitted lines leaves in r0 *)
(* the value of the expression computed as left-op-right modulo 2^32, also *)
(* when the right operand is itself a binary operation.                    *)
C9_ExpressionValue ==
    ReturnedExpression =>
        LET e == machine.fn.body.statements[1].term IN
        DivisorsNonZero(e, machine.fn, machine.args) =>
            machine.r0 = Value(e, machine.fn, machine.args)

C9_Witness ==
    /\ ReturnedExpression
    /\ machine.fn.body.statements[1].term
         = Subtract(Id("a"), Divide(Id("b"), Number(3)))
    /\ machine.args = <<ToWord(2), <<65535, 65535>>>>
    /\ machine.r0 = <<43690, 43693>>

(* C10: on every execution path, just before the push of a Var the stack   *)
(* pointer is 8 above fp + offset, where offset is the frame offset the    *)
(* compiler bound to the Var's name, so that the push stores r0 at         *)
(* fp + offset; for every placement of the Var, also inside If and While.  *)
C10_VarPushAtBoundOffset ==
    (machine # Off /\ machine.status = "run") =>
        \A b \in Range(binds) :
            (b.var /\ b.at = machine.pc) => machine.sp - 8 = machine.fp + b.offset


-----------------------------------------------------------------------------
(* Properties of the parser.                                               *)

(* C1: for a program the exported parser accepts, the text with runs of    *)
(* spaces, tabs, newlines, line comments and block comments inserted       *)
(* between its tokens parses to completion, to the same AST.               *)
C1_WhitespaceInvariance ==
    (/\ input.family = "padded"
     /\ Len(done) = 2
     /\ done[1].outcome.kind = "value")
    => /\ done[2].outcome.kind = "value"
       /\ done[2].outcome.value = done[1].outcome.value

(* C5: parseStringToCompletion returns the value only when the parser      *)
(* succeeded from index 0 with its cursor at the length of the text; a     *)
(* miss is the error at index 0, and a success that stops before the end   *)
(* is the error at the index of the cursor.                                *)
C5_CompletionOutcome ==
    \A k \in 1..Len(done) :
        LET result == done[k].result
            outcome == done[k].outcome
            length == Len(done[k].source)
        IN /\ outcome.kind \in {"value", "error"}
           /\ outcome.kind = "value" =>
                 /\ result.ok
                 /\ result.index = length
                 /\ outcome.value = result.value
           /\ ~result.ok => outcome = ParseError(0)
           /\ (result.ok /\ result.index < length) => outcome = ParseError(result.index)

(* A statement parsed from the front of a longer text.                     *)
C5_Witness ==
    \E k \in 1..Len(done) :
        /\ done[k].result.ok
        /\ done[k].result.index > 0
        /\ done[k].result.index < Len(done[k].source)
        /\ done[k].outcome = ParseError(done[k].result.index)

Precedence(lexeme) ==
    CASE lexeme \in {<<"=", "=">>, <<"!", "=">>} -> 1
      [] lexeme \in {<<"+">>, <<"-">>} -> 2
      [] lexeme \in {<<"*">>, <<"/">>} -> 3
      [] OTHER -> 0
ClassOf(lexeme) ==
    CASE lexeme = <<"=", "=">> -> "Equal"
      [] lexeme = <<"!", "=">> -> "NotEqual"
      [] lexeme = <<"+">> -> "Add"
      [] lexeme = <<"-">> -> "Subtract"
      [] lexeme = <<"*">> -> "Multiply"
      [] lexeme = <<"/">> -> "Divide"
OperandNode(lexeme) ==
    IF lexeme[1] \in Digits THEN Number(DigitValue(lexeme[1])) ELSE Id(lexeme)

(* The tree the claim assigns to a token list: split at the last operator  *)
(* of the loosest level present, the left part at the same level, the      *)
(* right part one level tighter; level 4 is a unary term.                  *)
RECURSIVE Expected(_, _)
Expected(toks, level) ==
    IF level = 4
    THEN IF toks[1] = <<"!">> THEN Not(OperandNode(toks[2])) ELSE OperandNode(toks[1])
    ELSE LET at == {k \in 1..Len(toks) : Precedence(toks[k]) = level} IN
         IF at = {} THEN Expected(toks, level + 1)
         ELSE LET k == CHOOSE j \in at : \A l \in at : l <= j IN
              BinaryOf(ClassOf(toks[k]),
                       Expected(SubSeq(toks, 1, k - 1), level),
                       Expected(SubSeq(toks, k + 1, Len(toks)), level + 1))

ParsedAs(toks, tree) ==
    (input.toks = toks /\ done # <<>>) => done[1].outcome = Returned(tree)

(* C6: an infix expression parses left-associatively within a level, and   *)
(* comparison binds looser than sum, sum than product, product than unary; *)
(* so for 1 - 2 - 3, 1 + 2 * 3 and a == b + c.                             *)
C6_LeftAssociativePrecedence ==
    /\ (input.family = "infix" /\ done # <<>>)
           => /\ done[1].outcome.kind = "value"
              /\ done[1].outcome.value = Expected(input.toks, 1)
    /\ ParsedAs(<<(<<"1">>), <<"-">>, <<"2">>, <<"-">>, <<"3">>>>,
                Subtract(Subtract(Number(1), Number(2)), Number(3)))
    /\ ParsedAs(<<(<<"1">>), <<"+">>, <<"2">>, <<"*">>, <<"3">>>>,
                Add(Number(1), Multiply(Number(2), Number(3))))
    /\ ParsedAs(<<(<<"a">>), <<"=", "=">>, <<"b">>, <<"+">>, <<"c">>>>,
                Equal(Id(<<"a">>), Add(Id(<<"b">>), Id(<<"c">>))))

C6_Witness ==
    /\ input.family = "infix"
    /\ input.toks = <<(<<"1">>), <<"-">>, <<"2">>, <<"-">>, <<"3">>>>
    /\ done # <<>>
    /\ done[1].outcome = Returned(Subtract(Subtract(Number(1), Number(2)), Number(3)))

-----------------------------------------------------------------------------
(* Properties of equals.                                                   *)

(* Same class and structurally equal payloads: scalars by value, children  *)
(* deeply, lists element by element in order.                              *)
RECURSIVE StructurallyEqual(_, _)
StructurallyEqual(a, b) ==
    IF a = 0 \/ b = 0 THEN a = b
    ELSE /\ heap[a].kind = heap[b].kind
         /\ heap[a].value = heap[b].value
         /\ heap[a].parameters = heap[b].parameters
         /\ Len(heap[a].kids) = Len(heap[b].kids)
         /\ \A k \in 1..Len(heap[a].kids) :
                StructurallyEqual(heap[a].kids[k], heap[b].kids[k])

(* C2: for every class, a.equals(b) exactly when a and b are of the same   *)
(* class with structurally equal payloads, also when the children are      *)
(* distinct objects.                                                       *)
C2_EqualsIffStructural ==
    \A a \in Refs, b \in Refs : equals(a, b) <=> StructurallyEqual(a, b)

=============================================================================
